---- MODULE Spec2Model ----
(***************************************************************************)
(* CryptoDataCollector (src/data/collector.py): the crypto_prices table    *)
(* with its insert-or-replace writer save_to_database, the reader          *)
(* get_crypto_data, the concurrent fetcher fetch_crypto_prices and the     *)
(* run update_all_crypto_data.                                             *)
(*                                                                         *)
(* A timestamp is a pair <<sec, us>> (whole seconds, microseconds).  The   *)
(* table keeps it as text with the fraction always written; the reader     *)
(* compares that text with str(datetime), which drops a zero fraction.     *)
(* A text is the sequence of its fields and is compared field by field, a  *)
(* proper prefix being the smaller one, as SQLite's text comparison does.  *)
(* Stored money values are integers in hundredths, the provider's raw      *)
(* values integers in thousandths.                                         *)
(*                                                                         *)
(* Spec is the writer under arbitrary crypto_data; Pipeline is a caller    *)
(* that runs the module's script (fetch, save, read), update_metadata or   *)
(* update_all_crypto_data; FairFetch is the fetcher with the event loop's  *)
(* fairness.                                                               *)
(***************************************************************************)
EXTENDS Integers, Sequences, FiniteSets, TLC

\* ------------------------------------------------------------- bounds
MaxRows == 2         \* rows in one crypto_data handed to save_to_database
MaxSaves == 1        \* save_to_database calls with new crypto_data in one behaviour
MaxPoints == 2       \* points in one series of a provider answer
RecursionLimit == 2  \* nested calls the interpreter allows before RecursionError

\* ------------------------------------------------------------- data
None == "None"

\* An argument left at its default None.
NoIds == <<None>>

NoDate == <<>>

Ids == {"btc", "eth"}

\* crypto_id is text; SQLite orders it with the column's BINARY collation.
IdLess(a, b) == a = "btc" /\ b = "eth"

\* Timestamps of the rows a caller hands to the writer.
Timestamps == {<<1, 0>>, <<2, 0>>}

\* The bounds a reader may ask for: a row's timestamp or a point between two.
DateBounds == Timestamps \cup {<<1, 500000>>}

Vals == {[price |-> 100, market_cap |-> 1000, volume |-> 10000],
         [price |-> 200, market_cap |-> 2000, volume |-> 20000]}

\* One row of a DataFrame: the index value and the three value columns.
DfRows == {[timestamp |-> t, price |-> v.price, market_cap |-> v.market_cap,
            volume |-> v.volume] : t \in Timestamps, v \in Vals}

RECURSIVE SeqsUpTo(_, _)
SeqsUpTo(S, n) ==
  IF n = 0 THEN {<<>>}
  ELSE LET shorter == SeqsUpTo(S, n - 1)
       IN  shorter \cup {Append(s, x) : s \in shorter, x \in S}

DataFrames == SeqsUpTo(DfRows, MaxRows)

\* The key orders of a dict over Ids.
IdOrders == {<<>>} \cup {<<a>> : a \in Ids}
              \cup {o \in {<<a, b>> : a \in Ids, b \in Ids} : o[1] # o[2]}

RECURSIVE TotalRows(_)
TotalRows(crypto_data) ==
  IF crypto_data = <<>> THEN 0
  ELSE Len(Head(crypto_data).df) + TotalRows(Tail(crypto_data))

\* crypto_data: a dict, here the sequence of its items in insertion order.
CryptoData ==
  {cd \in UNION {{[i \in 1..Len(o) |-> [crypto_id |-> o[i], df |-> f[i]]] :
                    f \in [1..Len(o) -> DataFrames]} : o \in IdOrders} :
     TotalRows(cd) <= MaxRows}

\* The arguments of get_crypto_data.
QueryArgs ==
  [crypto_ids : {NoIds, <<>>, <<"btc">>, <<"eth", "btc">>},
   start_date : {NoDate} \cup DateBounds,
   end_date : {NoDate} \cup DateBounds]

\* The crypto_ids lists a caller asks the fetcher for (an id may repeat).
IdLists == {<<>>} \cup {<<a>> : a \in Ids} \cup {<<a, b>> : a \in Ids, b \in Ids}

\* A provider answer: three series of [epoch_ms, value] pairs.  The i-th point
\* of a series is i seconds after the epoch.
Raws == {1004, 1996}

Series(n, raw) == [i \in 1..n |-> <<1000 * i, raw>>]

Payloads ==
  {[prices |-> Series(n, raw), market_caps |-> Series(m, 10 * raw),
    total_volumes |-> Series(k, 100 * raw)] :
     n \in 0..MaxPoints, m \in 0..MaxPoints, k \in 0..MaxPoints, raw \in Raws}

\* The coins get_available_cryptocurrencies lists ([] when its request fails).
Coin(id) == [id |-> id, name |-> id, symbol |-> id]

CoinLists == {[i \in 1..Len(o) |-> Coin(o[i])] : o \in IdOrders}

Clock == {1, 2}

VARIABLES
  prices_table,   \* committed rows of crypto_prices, in rowid order
  session,        \* the open write transaction's view of the table
  todo,           \* items of crypto_data the writer has still to insert
  before,         \* prices_table when the running save_to_database was called
  batch,          \* the crypto_data the running call was given
  repeat,         \* whether that is the crypto_data of a call that just committed
  save_pc,        \* "idle" | "loop" | "close": position of save_to_database
  save_result,    \* what the last save_to_database gave its caller
  save_failed,    \* whether the last call hit an SQLAlchemyError
  saves,          \* calls made so far with crypto_data of the caller's choice
  query,          \* <<arguments>> of the last get_crypto_data call, <<>> before any
  result,         \* the DataFrame it returned: its rows in order
  read_failed,    \* whether pd.read_sql raised in it
  pc,             \* the caller: "start" | "gather" | "fetched" | "saved" | "done" | "raised"
  crypto_ids,     \* the list given to fetch_crypto_prices
  tasks,          \* one fetch_single_crypto per list entry, while they run
  outcomes,       \* per list entry, how its task ended: "ok" | "failed" |
                  \* "malformed" | "gave_up" ("running" until then)
  fetched,        \* the dict fetch_crypto_prices returned
  metadata_table, \* committed rows of crypto_metadata, in rowid order
  meta_result,    \* what the last update_metadata gave its caller
  meta_failed,    \* whether it hit an SQLAlchemyError
  run_coins,      \* the coins update_all_crypto_data listed
  run_steps       \* the calls update_all_crypto_data made, in order

writer == <<prices_table, session, todo, before, batch, repeat, save_pc,
            save_result, save_failed, saves>>

reader == <<query, result, read_failed>>

fetcher == <<crypto_ids, tasks, outcomes, fetched>>

meta == <<metadata_table, meta_result, meta_failed>>

run == <<run_coins, run_steps>>

vars == <<writer, reader, pc, fetcher, meta, run>>

\* ------------------------------------------------------------- table
Key(r) == <<r.timestamp, r.crypto_id>>

DropKey(table, k) == SelectSeq(table, LAMBDA r : Key(r) # k)

\* INSERT OR IGNORE: a record whose key is already in the table is dropped.
InsertOrIgnore(table, record) ==
  IF \E i \in 1..Len(table) : Key(table[i]) = Key(record)
  THEN table ELSE Append(table, record)

\* INSERT OR REPLACE of one record: the row holding the key, if any, is deleted
\* and the record becomes a new row with the largest rowid.
InsertOrReplace(table, record) == Append(DropKey(table, Key(record)), record)

RECURSIVE ExecuteMany(_, _)
ExecuteMany(table, records) ==
  IF records = <<>> THEN table
  ELSE ExecuteMany(InsertOrReplace(table, Head(records)), Tail(records))

\* The records list built from one item of crypto_data.
Records(item) ==
  [i \in 1..Len(item.df) |->
     [timestamp |-> item.df[i].timestamp, crypto_id |-> item.crypto_id,
      price |-> item.df[i].price, market_cap |-> item.df[i].market_cap,
      volume |-> item.df[i].volume]]

\* --------------------------------------------------- save_to_database
\* Session(): the transaction begins on the table as committed.
Begin(crypto_data) ==
  /\ save_pc' = "loop"
  /\ session' = prices_table
  /\ todo' = crypto_data
  /\ batch' = crypto_data
  /\ before' = prices_table
  /\ save_result' = "none"
  /\ save_failed' = FALSE
  /\ UNCHANGED prices_table

SaveCall(crypto_data) ==
  /\ save_pc = "idle"
  /\ saves < MaxSaves
  /\ saves' = saves + 1
  /\ Begin(crypto_data)
  /\ repeat' = FALSE

\* One turn of the loop over crypto_data.items(): the item's records are
\* inserted in the transaction; an item with an empty DataFrame executes nothing.
Execute(table, item) ==
  IF Records(item) # <<>> THEN ExecuteMany(table, Records(item)) ELSE table

SaveExecute ==
  /\ save_pc = "loop"
  /\ todo # <<>>
  /\ session' = Execute(session, Head(todo))
  /\ todo' = Tail(todo)
  /\ UNCHANGED <<prices_table, before, batch, repeat, save_pc, save_result,
                 save_failed, saves>>
  /\ UNCHANGED <<reader, pc, fetcher, meta, run>>

\* A handler that commits what was inserted before the error.
AfterRollbackKeeps(table, txn) == txn

\* session.rollback(): the transaction's rows are dropped.
AfterRollback(table, txn) == table

\* except SQLAlchemyError: the transaction is rolled back and the error logged.
Rollback ==
  /\ prices_table' = AfterRollback(prices_table, session)
  /\ save_pc' = "close"
  /\ save_failed' = TRUE
  /\ UNCHANGED <<session, todo, before, batch, repeat, save_result, saves>>
  /\ UNCHANGED <<reader, pc, fetcher, meta, run>>

\* session.execute raises an SQLAlchemyError.
SaveExecuteError ==
  /\ save_pc = "loop"
  /\ todo # <<>>
  /\ Records(Head(todo)) # <<>>
  /\ Rollback

\* session.commit(): the transaction's rows become the committed table.
SaveCommit ==
  /\ save_pc = "loop"
  /\ todo = <<>>
  /\ prices_table' = session
  /\ save_pc' = "close"
  /\ UNCHANGED <<session, todo, before, batch, repeat, save_result,
                 save_failed, saves>>
  /\ UNCHANGED <<reader, pc, fetcher, meta, run>>

\* session.commit() raises an SQLAlchemyError (a commit with nothing executed
\* does not reach the database).
SaveCommitError ==
  /\ save_pc = "loop"
  /\ todo = <<>>
  /\ TotalRows(batch) > 0
  /\ Rollback

\* finally: session.close(); the method returns None after a commit and after
\* a rollback alike, and its locals are gone.
SaveClose ==
  /\ save_pc = "close"
  /\ save_pc' = "idle"
  /\ save_result' = None
  /\ session' = <<>>
  /\ todo' = <<>>
  /\ batch' = <<>>
  /\ before' = <<>>
  /\ repeat' = FALSE
  /\ UNCHANGED <<prices_table, save_failed, saves>>
  /\ UNCHANGED <<reader, pc, fetcher, meta, run>>

\* The caller hands the crypto_data of the call that just ended to
\* save_to_database again: that call returns as in SaveClose and the next begins.
SaveAgain ==
  /\ save_pc = "close"
  /\ ~repeat
  /\ Begin(batch)
  /\ repeat' = ~save_failed
  /\ UNCHANGED saves
  /\ UNCHANGED <<reader, pc, fetcher, meta, run>>

\* ---------------------------------------------------- get_crypto_data
\* The text the table keeps for a timestamp: the fraction is always written.
StorageFormat(ts) == <<ts[1], ts[2]>>

\* str(datetime) inside the f-string: a zero fraction is left out.
StrDatetime(ts) == IF ts[2] = 0 THEN <<ts[1]>> ELSE <<ts[1], ts[2]>>

RECURSIVE TextLess(_, _)
TextLess(a, b) ==
  IF b = <<>> THEN FALSE
  ELSE IF a = <<>> THEN TRUE
  ELSE IF Head(a) # Head(b) THEN Head(a) < Head(b)
  ELSE TextLess(Tail(a), Tail(b))

TextGE(a, b) == ~TextLess(a, b)

\* The WHERE clause: the conditions list joined by AND.
IdCondition(args, r) ==
  \E i \in 1..Len(args.crypto_ids) : args.crypto_ids[i] = r.crypto_id

\* The start condition with the comparison turned round.
StartConditionReversed(args, r) ==
  TextGE(StrDatetime(args.start_date), StorageFormat(r.timestamp))

StartCondition(args, r) ==
  TextGE(StorageFormat(r.timestamp), StrDatetime(args.start_date))

EndCondition(args, r) ==
  TextGE(StorageFormat(r.timestamp), StrDatetime(args.end_date))

Where(args, r) ==
  /\ (args.crypto_ids # NoIds /\ args.crypto_ids # <<>>) => IdCondition(args, r)
  /\ args.start_date # NoDate => StartCondition(args, r)
  /\ args.end_date # NoDate => EndCondition(args, r)

\* The primary key's index: rows by timestamp text, then crypto_id.
IndexLess(r, q) ==
  \/ TextLess(StorageFormat(r.timestamp), StorageFormat(q.timestamp))
  \/ r.timestamp = q.timestamp /\ IdLess(r.crypto_id, q.crypto_id)

RECURSIVE IndexOrder(_)
IndexOrder(rows) ==
  IF rows = <<>> THEN <<>>
  ELSE LET i == CHOOSE i \in 1..Len(rows) :
                  \A j \in 1..Len(rows) : j # i => IndexLess(rows[i], rows[j])
           rest == [j \in 1..(Len(rows) - 1) |->
                      IF j < i THEN rows[j] ELSE rows[j + 1]]
       IN  <<rows[i]>> \o IndexOrder(rest)

\* SELECT * with no ORDER BY: SQLite answers a condition on timestamp from the
\* primary key's index and anything else by a scan of the table in rowid order.
Select(table, args) ==
  LET rows == SelectSeq(table, LAMBDA r : Where(args, r))
  IN  IF args.start_date # NoDate \/ args.end_date # NoDate
      THEN IndexOrder(rows)
      ELSE rows

get_crypto_data(args) ==
  /\ query' = <<args>>
  /\ result' = Select(prices_table, args)
  /\ read_failed' = FALSE

\* pd.read_sql raises: the error is logged and an empty DataFrame returned.
get_crypto_data_error(args) ==
  /\ query' = <<args>>
  /\ result' = <<>>
  /\ read_failed' = TRUE

\* ------------------------------------------------ fetch_crypto_prices
\* pd.to_datetime(epoch_ms, unit="ms")
ToDatetime(ms) == <<ms \div 1000, (ms % 1000) * 1000>>

\* round(x, 2) of a value in thousandths, as hundredths (no raw value ends in 5).
Round2(x) == (x + 5) \div 10

\* Assigning a column whose length is not the index's raises ValueError.
Aligned(data) ==
  /\ Len(data.market_caps) = Len(data.prices)
  /\ Len(data.total_volumes) = Len(data.prices)

\* The DataFrame built from a provider answer.
BuildFrame(data) ==
  [i \in 1..Len(data.prices) |->
     [timestamp |-> ToDatetime(data.prices[i][1]),
      price |-> Round2(data.prices[i][2]),
      market_cap |-> Round2(data.market_caps[i][2]),
      volume |-> Round2(data.total_volumes[i][2])]]

\* What a task returns on any exception: pd.DataFrame().
EmptyFrame == <<>>

NewTask(id) ==
  [crypto_id |-> id, st |-> "request", depth |-> 0, df |-> EmptyFrame]

\* asyncio.run(fetch_crypto_prices(ids)): one task per list entry.
FetchCall(ids) ==
  /\ pc = "start"
  /\ pc' = "gather"
  /\ crypto_ids' = ids
  /\ tasks' = [i \in 1..Len(ids) |-> NewTask(ids[i])]
  /\ outcomes' = [i \in 1..Len(ids) |-> "running"]
  /\ UNCHANGED fetched
  /\ UNCHANGED <<writer, reader, meta, run>>

Finish(i, frame, how) ==
  /\ tasks' = [tasks EXCEPT ![i].st = "done", ![i].df = frame]
  /\ outcomes' = [outcomes EXCEPT ![i] = how]

\* Status 200: the answer is turned into a DataFrame, or into the empty one
\* when its series have different lengths.
TaskAnswer(i, data) ==
  /\ pc = "gather"
  /\ tasks[i].st = "request"
  /\ IF Aligned(data) THEN Finish(i, BuildFrame(data), "ok")
     ELSE Finish(i, EmptyFrame, "malformed")
  /\ UNCHANGED <<crypto_ids, fetched, pc>>
  /\ UNCHANGED <<writer, reader, meta, run>>

\* The request, raise_for_status or response.json() raises.
TaskError(i) ==
  /\ pc = "gather"
  /\ tasks[i].st = "request"
  /\ Finish(i, EmptyFrame, "failed")
  /\ UNCHANGED <<crypto_ids, fetched, pc>>
  /\ UNCHANGED <<writer, reader, meta, run>>

\* Status 429: the task sleeps for Retry-After seconds.
TaskRateLimited(i) ==
  /\ pc = "gather"
  /\ tasks[i].st = "request"
  /\ tasks' = [tasks EXCEPT ![i].st = "sleep"]
  /\ UNCHANGED <<crypto_ids, outcomes, fetched, pc>>
  /\ UNCHANGED <<writer, reader, meta, run>>

\* After the sleep the task calls fetch_single_crypto again from inside itself.
\* Each retry nests one call deeper; when the interpreter's limit is reached the
\* call raises RecursionError, an Exception, and the task returns the empty
\* DataFrame through its except clause.
\* A retry in a loop: no call is nested, so nothing ever ends it.
RetryInPlace(t) == [t EXCEPT !.st = "request"]

Retry(t) ==
  IF t.depth < RecursionLimit
  THEN [t EXCEPT !.st = "request", !.depth = t.depth + 1]
  ELSE [t EXCEPT !.st = "done", !.df = EmptyFrame]

TaskRetry(i) ==
  /\ pc = "gather"
  /\ tasks[i].st = "sleep"
  /\ tasks' = [tasks EXCEPT ![i] = Retry(tasks[i])]
  /\ outcomes' = [outcomes EXCEPT ![i] =
                     IF Retry(tasks[i]).st = "done" THEN "gave_up" ELSE @]
  /\ UNCHANGED <<crypto_ids, fetched, pc>>
  /\ UNCHANGED <<writer, reader, meta, run>>

\* A dict that leaves out the ids whose DataFrame is empty.
RECURSIVE DictOfNonEmpty(_)
DictOfNonEmpty(results) ==
  IF results = <<>> THEN <<>>
  ELSE LET n == Len(results)
           init == DictOfNonEmpty(SubSeq(results, 1, n - 1))
           last == [crypto_id |-> results[n].crypto_id, df |-> results[n].df]
           drop == SelectSeq(init, LAMBDA e : e.crypto_id # last.crypto_id)
       IN  IF last.df = <<>> THEN drop ELSE Append(drop, last)

\* {crypto_id: df for crypto_id, df in results}: a key keeps the place of its
\* first entry and the value of its last.
RECURSIVE DictOf(_)
DictOf(results) ==
  IF results = <<>> THEN <<>>
  ELSE LET n == Len(results)
           init == DictOf(SubSeq(results, 1, n - 1))
           last == [crypto_id |-> results[n].crypto_id, df |-> results[n].df]
       IN  IF \E j \in 1..Len(init) : init[j].crypto_id = last.crypto_id
           THEN [j \in 1..Len(init) |->
                   IF init[j].crypto_id = last.crypto_id THEN last ELSE init[j]]
           ELSE Append(init, last)

AllDone(ts) == \A i \in 1..Len(ts) : ts[i].st = "done"

\* asyncio.gather returns once every task has returned, and the dict of the
\* results is what fetch_crypto_prices returns.
Gather ==
  /\ pc = "gather"
  /\ AllDone(tasks)
  /\ fetched' = DictOf(tasks)
  /\ tasks' = <<>>
  /\ pc' = "fetched"
  /\ UNCHANGED <<crypto_ids, outcomes>>
  /\ UNCHANGED <<writer, reader, meta, run>>

\* ------------------------------------------------------ the script
ScriptSave ==
  /\ pc = "fetched"
  /\ SaveCall(fetched)
  /\ pc' = "saved"
  /\ UNCHANGED <<reader, fetcher, meta, run>>

ScriptRead(args) ==
  /\ pc = "saved"
  /\ save_pc = "idle"
  /\ get_crypto_data(args)
  /\ pc' = "done"
  /\ UNCHANGED <<writer, fetcher, meta, run>>

ScriptReadError(args) ==
  /\ pc = "saved"
  /\ save_pc = "idle"
  /\ get_crypto_data_error(args)
  /\ pc' = "done"
  /\ UNCHANGED <<writer, fetcher, meta, run>>

\* ---------------------------------------------------- update_metadata
MetaRecord(coin, now) ==
  [crypto_id |-> coin.id, name |-> coin.name, symbol |-> coin.symbol,
   last_updated |-> now]

MetaInsertOrReplace(table, record) ==
  Append(SelectSeq(table, LAMBDA r : r.crypto_id # record.crypto_id), record)

RECURSIVE MetaExecute(_, _, _)
MetaExecute(table, coins, now) ==
  IF coins = <<>> THEN table
  ELSE MetaExecute(MetaInsertOrReplace(table, MetaRecord(Head(coins), now)),
                   Tail(coins), now)

\* now stands for the datetime.now() of the call's records.
update_metadata(coins, now) ==
  /\ metadata_table' = MetaExecute(metadata_table, coins, now)
  /\ meta_result' = None
  /\ meta_failed' = FALSE

\* An execute or the commit raises an SQLAlchemyError: rollback, log, return.
update_metadata_error(coins) ==
  /\ coins # <<>>
  /\ metadata_table' = metadata_table
  /\ meta_result' = None
  /\ meta_failed' = TRUE

UpdateMetadata(coins, now) ==
  /\ pc = "start"
  /\ update_metadata(coins, now)
  /\ pc' = "done"
  /\ UNCHANGED <<writer, reader, fetcher, run>>

UpdateMetadataError(coins) ==
  /\ pc = "start"
  /\ update_metadata_error(coins)
  /\ pc' = "done"
  /\ UNCHANGED <<writer, reader, fetcher, run>>

\* --------------------------------------------- update_all_crypto_data
\* fetch_crypto_prices is an async def and is called without await or
\* asyncio.run: the call makes a coroutine object and runs none of its body.
\* save_to_database(crypto_data) starts with crypto_data.items(), which a
\* coroutine object does not have: AttributeError, which is no SQLAlchemyError,
\* so the session is closed and the error leaves save_to_database and
\* update_all_crypto_data; update_metadata(coins) is not reached.
UpdateAll(coins) ==
  /\ pc = "start"
  /\ run_coins' = coins
  /\ run_steps' = <<"get_available_cryptocurrencies", "fetch_crypto_prices",
                    "save_to_database">>
  /\ pc' = "raised"
  /\ UNCHANGED <<writer, reader, fetcher, meta>>

\* ------------------------------------------------------------- specs
Init ==
  /\ prices_table = <<>>
  /\ session = <<>>
  /\ todo = <<>>
  /\ before = <<>>
  /\ batch = <<>>
  /\ repeat = FALSE
  /\ save_pc = "idle"
  /\ save_result = "none"
  /\ save_failed = FALSE
  /\ saves = 0
  /\ query = <<>>
  /\ result = <<>>
  /\ read_failed = FALSE
  /\ pc = "start"
  /\ crypto_ids = <<>>
  /\ tasks = <<>>
  /\ outcomes = <<>>
  /\ fetched = <<>>
  /\ metadata_table = <<>>
  /\ meta_result = "none"
  /\ meta_failed = FALSE
  /\ run_coins = <<>>
  /\ run_steps = <<>>

\* A caller of save_to_database with crypto_data of its own.
Save(crypto_data) ==
  /\ SaveCall(crypto_data)
  /\ UNCHANGED <<reader, pc, fetcher, meta, run>>

Next ==
  \/ \E cd \in CryptoData : Save(cd)
  \/ SaveExecute
  \/ SaveExecuteError
  \/ SaveCommit
  \/ SaveCommitError
  \/ SaveClose
  \/ SaveAgain

Spec == Init /\ [][Next]_vars

FetchNext ==
  \/ \E ids \in IdLists : FetchCall(ids)
  \/ \E i \in 1..Len(tasks), data \in Payloads : TaskAnswer(i, data)
  \/ \E i \in 1..Len(tasks) : TaskError(i)
  \/ \E i \in 1..Len(tasks) : TaskRateLimited(i)
  \/ \E i \in 1..Len(tasks) : TaskRetry(i)
  \/ Gather

PipelineNext ==
  \/ FetchNext
  \/ ScriptSave
  \/ SaveExecute
  \/ SaveExecuteError
  \/ SaveCommit
  \/ SaveCommitError
  \/ SaveClose
  \/ \E args \in QueryArgs : ScriptRead(args)
  \/ \E args \in QueryArgs : ScriptReadError(args)
  \/ \E coins \in CoinLists, now \in Clock : UpdateMetadata(coins, now)
  \/ \E coins \in CoinLists : UpdateMetadataError(coins)
  \/ \E coins \in CoinLists : UpdateAll(coins)

Pipeline == Init /\ [][PipelineNext]_vars

\* The fetcher alone, with the event loop's scheduling: a task that can take a
\* step is run, and gather returns when every task has returned.
TaskStep(i) ==
  /\ i \in 1..Len(tasks)
  /\ \/ \E data \in Payloads : TaskAnswer(i, data)
     \/ TaskError(i)
     \/ TaskRateLimited(i)
     \/ TaskRetry(i)

FairFetch ==
  /\ Init
  /\ [][FetchNext]_vars
  /\ \A i \in 1..Cardinality(Ids) : WF_vars(TaskStep(i))
  /\ WF_vars(Gather)

\* ------------------------------------------------------------- claims
\* Time order of two timestamps.
TsLE(a, b) == a[1] < b[1] \/ (a[1] = b[1] /\ a[2] <= b[2])

InSeq(x, seq) == \E i \in 1..Len(seq) : seq[i] = x

Asked == query # <<>>

IdsGiven(args) == args.crypto_ids # NoIds /\ args.crypto_ids # <<>>

\* The other filters of a call, as the reader's contract states them.
OtherFilters(args, r) ==
  /\ IdsGiven(args) => InSeq(r.crypto_id, args.crypto_ids)
  /\ args.start_date # NoDate => TsLE(args.start_date, r.timestamp)

\* C1: a call of get_crypto_data with end_date = E returns no record later than
\* E and returns every stored record at or before E that passes the other
\* filters.
C1_EndIsInclusiveUpperBound ==
  (Asked /\ ~read_failed /\ query[1].end_date # NoDate) =>
    /\ \A i \in 1..Len(result) :
         TsLE(result[i].timestamp, query[1].end_date)
    /\ \A j \in 1..Len(prices_table) :
         ( /\ TsLE(prices_table[j].timestamp, query[1].end_date)
           /\ OtherFilters(query[1], prices_table[j]) )
         => InSeq(prices_table[j], result)

\* C2: with a non-empty crypto_ids list no returned record has a crypto_id
\* outside the list, with start_date = T no returned record is earlier than T,
\* and with both every returned record satisfies both.
C2_FilterCorrect ==
  Asked =>
    /\ IdsGiven(query[1]) =>
         \A i \in 1..Len(result) : InSeq(result[i].crypto_id, query[1].crypto_ids)
    /\ query[1].start_date # NoDate =>
         \A i \in 1..Len(result) : TsLE(query[1].start_date, result[i].timestamp)

\* Both filters were given, each one kept a stored record out, and a record
\* was returned.
C2_Witness ==
  /\ Asked
  /\ ~read_failed
  /\ IdsGiven(query[1])
  /\ query[1].start_date # NoDate
  /\ result # <<>>
  /\ \E j \in 1..Len(prices_table) :
       /\ ~InSeq(prices_table[j].crypto_id, query[1].crypto_ids)
       /\ TsLE(query[1].start_date, prices_table[j].timestamp)
  /\ \E j \in 1..Len(prices_table) :
       /\ InSeq(prices_table[j].crypto_id, query[1].crypto_ids)
       /\ ~TsLE(query[1].start_date, prices_table[j].timestamp)

RECURSIVE ExecuteAll(_, _)
ExecuteAll(table, crypto_data) ==
  IF crypto_data = <<>> THEN table
  ELSE ExecuteAll(Execute(table, Head(crypto_data)), Tail(crypto_data))

\* C3: save_to_database is all-or-nothing.  While the batch is being inserted
\* the committed table, which is what a reader reads, is the table as it was
\* before the call; after a storage error it still is; after a commit it is
\* that table with every item of the batch inserted.
C3_AllOrNothing ==
  /\ save_pc = "loop" => prices_table = before
  /\ (save_pc = "close" /\ save_failed) => prices_table = before
  /\ (save_pc = "close" /\ ~save_failed) =>
       prices_table = ExecuteAll(before, batch)

\* A storage error came after the records of an earlier item had been inserted
\* in the transaction.
C3_Witness ==
  /\ save_pc = "close"
  /\ save_failed
  /\ session # before
  /\ Len(batch) > 1

\* C4: a failed write transaction of save_to_database or update_metadata is
\* signalled to the caller as StorageError.
C4_WriteFailureSignalled ==
  /\ (save_pc = "idle" /\ save_failed) => save_result = "StorageError"
  /\ meta_failed => meta_result = "StorageError"

\* C5: get_crypto_data returns an empty result only when no stored record
\* matches the filters, never because the read failed.
C5_EmptyOnlyWhenNoMatch ==
  (Asked /\ result = <<>>) =>
    \A j \in 1..Len(prices_table) : ~Where(query[1], prices_table[j])

UniqueKeys(table) ==
  \A i \in 1..Len(table), j \in 1..Len(table) :
    Key(table[i]) = Key(table[j]) => i = j

RECURSIVE AllRecords(_)
AllRecords(crypto_data) ==
  IF crypto_data = <<>> THEN <<>>
  ELSE Records(Head(crypto_data)) \o AllRecords(Tail(crypto_data))

\* The records of a batch that no later record of the batch replaces.
LastWrites(crypto_data) ==
  LET recs == AllRecords(crypto_data)
  IN  {recs[i] : i \in {i \in 1..Len(recs) :
                          \A j \in (i + 1)..Len(recs) : Key(recs[j]) # Key(recs[i])}}

\* C6: the upsert is idempotent.  No key is in the table twice; after a commit
\* every key of the batch holds the price, market_cap and volume last submitted
\* for it; and a call given the crypto_data of the call that committed just
\* before it leaves the table as that call left it.
C6_UpsertIdempotent ==
  /\ UniqueKeys(prices_table)
  /\ (save_pc = "close" /\ ~save_failed) =>
       \A rec \in LastWrites(batch) : InSeq(rec, prices_table)
  /\ (save_pc = "close" /\ ~save_failed /\ repeat) => prices_table = before

\* A second call with the same crypto_data committed, and the batch names a key
\* twice with different prices.
C6_Witness ==
  /\ save_pc = "close"
  /\ ~save_failed
  /\ repeat
  /\ \E rec \in LastWrites(batch) :
       \E i \in 1..Len(AllRecords(batch)) :
         /\ Key(AllRecords(batch)[i]) = Key(rec)
         /\ AllRecords(batch)[i].price # rec.price

\* C7: the records get_crypto_data returns are in ascending order of timestamp,
\* records of one timestamp in order of crypto_id.
C7_ResultOrdered ==
  Asked =>
    \A i \in 1..Len(result), j \in 1..Len(result) :
      i < j =>
        \/ ~TsLE(result[j].timestamp, result[i].timestamp)
        \/ /\ result[i].timestamp = result[j].timestamp
           /\ ~IdLess(result[j].crypto_id, result[i].crypto_id)

\* The list entries whose task decides the dict's value for its id.
Deciding == {i \in 1..Len(crypto_ids) :
               \A k \in (i + 1)..Len(crypto_ids) : crypto_ids[k] # crypto_ids[i]}

Entry(id) == fetched[CHOOSE j \in 1..Len(fetched) : fetched[j].crypto_id = id]

C9_RunCompletes ==
  pc = "raised" =>
    /\ run_steps = <<"get_available_cryptocurrencies", "fetch_crypto_prices",
                     "save_to_database", "update_metadata">>
    /\ \A i \in 1..Len(run_coins) :
         \E j \in 1..Len(metadata_table) :
           metadata_table[j].crypto_id = run_coins[i].id

\* C10: fetch_crypto_prices returns for every list of ids.  No task makes more
\* than a bounded number of attempts, even when every answer is 429, and once
\* the tasks are started the dict of all their results is returned.
C10_FetchReturns ==
  /\ [](\A i \in 1..Len(tasks) : tasks[i].depth <= RecursionLimit)
  /\ (pc = "gather") ~> (pc = "fetched")

\* One task was answered 429 until it gave up, another was fetched, and the
\* fetcher returned both results.
C10_Witness ==
  /\ pc = "fetched"
  /\ \E i \in Deciding : outcomes[i] = "gave_up"
  /\ \E i \in Deciding :
       /\ outcomes[i] = "ok"
       /\ Entry(crypto_ids[i]).df # <<>>
====
